---- MODULE Spec2Model ----
(***************************************************************************)
(* Model of cafemanage/cafe.py: the JSON documents (menu, orders, tables,  *)
(* settings), the Streamlit session state (logged_in, user, cart) and one  *)
(* action per request handler.  Money is fixed-point, in units of 1/10000  *)
(* of a rupee, so that 2.50 is 25000 and 2.875 is 28750; rates are in      *)
(* percent (0.10 is 10).                                                   *)
(***************************************************************************)
EXTENDS Integers, Sequences, FiniteSets, TLC

VARIABLES
    MENU_FILE,      \* menu_data.json: category -> list of items
    ORDERS_FILE,    \* orders_data.json: list of orders
    TABLES_FILE,    \* tables_data.json: list of tables
    SETTINGS_FILE,  \* settings.json
    logged_in,      \* st.session_state['logged_in']
    user,           \* st.session_state['user']
    cart,           \* st.session_state['cart']
    view,           \* the page the last request rendered
    msgs,           \* st.error / st.success / st.warning texts of the last request
    reconciled,     \* local `tables` of table_management_page after its reconcile
                    \* loop (empty once another request has run)
    changed,        \* local `changed` of table_management_page (likewise)
    inflight,       \* per browser session: the Place Order request it has under
                    \* way when the handler's file writes are separate steps
                    \* (its locals menu_data, orders_data and new_order)
    issued,         \* the orders built by the Place Order requests that ran to
                    \* their end, each with the session that placed it
    crashed         \* a Place Order request was killed before its end

vars == <<MENU_FILE, ORDERS_FILE, TABLES_FILE, SETTINGS_FILE, logged_in, user,
          cart, view, msgs, reconciled, changed, inflight, issued, crashed>>

placing == <<inflight, issued, crashed>>

persisted == <<MENU_FILE, ORDERS_FILE, TABLES_FILE, SETTINGS_FILE>>

\* ---------------------------------------------------------------- bounds
SeedInventory == 1      \* inventory of the seeded Croissant (40 in the code);
                        \* the Espresso has one more (50 in the code)
MaxCart == 2            \* longest cart the model builds
MaxOrders == 2          \* longest order log the model builds
NumTables == 2          \* tables seeded (10 in the code)

\* ---------------------------------------------------------------- constants
None == [none |-> TRUE]         \* Python's None, where a user record is expected
Cent == 100                     \* units per 0.01
EspressoPrice == 25000          \* 2.50
CroissantPrice == 25000         \* 2.50
DefaultTaxRate == 10            \* 0.10
DefaultServiceCharge == 5       \* 0.05

Categories == <<"beverages", "food">>

default_menu ==
    [beverages |-> << [id |-> "BEV001", name |-> "Espresso", price |-> EspressoPrice,
                       category |-> "Coffee", available |-> TRUE,
                       inventory |-> SeedInventory + 1] >>,
     food      |-> << [id |-> "FOOD001", name |-> "Croissant", price |-> CroissantPrice,
                       category |-> "Pastry", available |-> TRUE,
                       inventory |-> SeedInventory] >>]

default_settings == [tax_rate |-> DefaultTaxRate, service_charge |-> DefaultServiceCharge]

default_tables == [i \in 1..NumTables |-> [table_number |-> ToString(i), status |-> "Available"]]

default_users ==
    << [username |-> "admin", password |-> "admin123", role |-> "admin"],
       [username |-> "staff", password |-> "staff123", role |-> "staff"] >>

status_options == <<"Available", "Occupied", "Reserved">>
order_statuses == <<"Pending", "Preparing", "Ready", "Completed", "Cancelled">>
live_statuses == {"Pending", "Preparing", "Ready"}
payment_options == <<"Unpaid", "Paid", "Partial">>

Range(s) == {s[i] : i \in DOMAIN s}

\* ---------------------------------------------------------------- inputs
\* what a request can carry; each specification draws from subsets of these
AdminLogin == [username |-> "admin", password |-> "admin123"]
StaffLogin == [username |-> "staff", password |-> "staff123"]
WrongLogin == [username |-> "staff", password |-> "wrong"]
Credentials == {AdminLogin, StaffLogin, WrongLogin}
ItemIds == {"BEV001", "FOOD001"}
QtyInputs == 0 .. (SeedInventory + 2)       \* number_input(0, 100)
CustomerNames == {"", "Ann"}
TableNumberInputs == {""} \cup {ToString(i) : i \in 1..NumTables}
CustomerEmails == {"", "ann@example.com"}
OtherSettings == [tax_rate |-> 20, service_charge |-> 10]
SettingsInputs == {default_settings, OtherSettings}

\* the browser sessions, each with its own st.session_state
Sessions == {1, 2}

\* a session with no Place Order request under way
Idle == [pc |-> "idle"]

\* ---------------------------------------------------------------- helpers
\* authenticate(username, password): first matching user, or None
RECURSIVE authenticate_from(_, _, _)
authenticate_from(users, cred, i) ==
    IF i > Len(users) THEN None
    ELSE IF users[i].username = cred.username /\ users[i].password = cred.password
         THEN users[i]
         ELSE authenticate_from(users, cred, i + 1)

authenticate(cred) == authenticate_from(default_users, cred, 1)

\* round(x, 2) on a non-negative amount: nearest cent, ties to even
round2(x) ==
    LET q == x \div Cent
        r == x % Cent
    IN  IF r * 2 < Cent THEN q * Cent
        ELSE IF r * 2 > Cent THEN (q + 1) * Cent
        ELSE IF q % 2 = 0 THEN q * Cent ELSE (q + 1) * Cent

\* ---------------------------------------------------------------- initial state
Init ==
    /\ MENU_FILE = default_menu
    /\ ORDERS_FILE = << >>
    /\ TABLES_FILE = default_tables
    /\ SETTINGS_FILE = default_settings
    /\ logged_in = FALSE
    /\ user = None
    /\ cart = << >>
    /\ view = "none"
    /\ msgs = << >>
    /\ reconciled = << >>
    /\ changed = FALSE
    /\ inflight = [s \in Sessions |-> Idle]
    /\ issued = << >>
    /\ crashed = FALSE

\* ---------------------------------------------------------------- login / logout
\* main() with logged_in false: login_page(), the Login button pressed
Login(credentials) ==
    /\ ~logged_in
    /\ \E cred \in credentials :
         LET u == authenticate(cred) IN
         IF u # None
         THEN /\ logged_in' = TRUE
              /\ user' = u
              /\ msgs' = <<"Welcome">>
         ELSE /\ UNCHANGED <<logged_in, user>>
              /\ msgs' = <<"Invalid username or password">>
    /\ view' = "Login"
    /\ reconciled' = << >>
    /\ changed' = FALSE
    /\ UNCHANGED <<persisted, cart>>
    /\ UNCHANGED placing

\* the navigation options main() offers the logged-in user
menu_options ==
    IF user.role = "admin"
    THEN {"Dashboard", "Menu Management", "Order Management", "Sales Analytics",
          "Table Management", "Settings", "Logout"}
    ELSE {"Dashboard", "Order Management", "Table Management", "Logout"}

\* a main() without its login gate, which offers the staff options to a
\* session without user
ChosenWithoutLogin(choice) ==
    IF logged_in THEN choice \in menu_options
    ELSE choice \in {"Dashboard", "Order Management", "Table Management", "Logout"}

Chosen(choice) == logged_in /\ choice \in menu_options

\* a Logout branch that clears logged_in and user but leaves the cart
LogoutKeepingCart ==
    /\ Chosen("Logout")
    /\ logged_in' = FALSE
    /\ user' = None
    /\ cart' = cart
    /\ view' = "Logout"
    /\ msgs' = << >>
    /\ reconciled' = << >>
    /\ changed' = FALSE
    /\ UNCHANGED persisted
    /\ UNCHANGED placing

\* main(): choice == "Logout"
Logout ==
    /\ Chosen("Logout")
    /\ logged_in' = FALSE
    /\ user' = None
    /\ cart' = << >>
    /\ view' = "Logout"
    /\ msgs' = << >>
    /\ reconciled' = << >>
    /\ changed' = FALSE
    /\ UNCHANGED persisted
    /\ UNCHANGED placing

\* main(): choice == "Menu Management" and choice == "Sales Analytics": the
\* page is rendered for an admin, a warning otherwise; what the two pages do
\* once rendered is not modelled
AdminPage(choices) ==
    /\ \E choice \in choices :
         /\ Chosen(choice)
         /\ IF user.role = "admin"
            THEN view' = choice /\ msgs' = << >>
            ELSE view' = "none" /\ msgs' = <<"Only admin can access">>
    /\ reconciled' = << >>
    /\ changed' = FALSE
    /\ UNCHANGED <<persisted, logged_in, user, cart>>
    /\ UNCHANGED placing

\* ---------------------------------------------------------------- dashboard
\* dashboard_page(): reads the menu and the orders, writes nothing
Dashboard ==
    /\ Chosen("Dashboard")
    /\ view' = "Dashboard"
    /\ msgs' = << >>
    /\ reconciled' = << >>
    /\ changed' = FALSE
    /\ UNCHANGED <<persisted, logged_in, user, cart>>
    /\ UNCHANGED placing

\* ---------------------------------------------------------------- table management
\* is_table_busy(tn)
is_table_busy(orders, tn) ==
    \E i \in DOMAIN orders :
        orders[i].table_number = tn /\ orders[i].status \in live_statuses

\* a reconcile loop that leaves a table without live order as it is
should_be_keeping(orders, t) ==
    IF is_table_busy(orders, t.table_number) THEN "Occupied" ELSE t.status

\* should_be of the reconcile loop
should_be(orders, t) ==
    IF is_table_busy(orders, t.table_number) THEN "Occupied" ELSE "Available"

\* the reconcile loop: every table's status becomes should_be
reconcile(tables, orders) ==
    [i \in DOMAIN tables |-> [tables[i] EXCEPT !.status = should_be(orders, tables[i])]]

\* `changed = True` set on every table, outside the `if`
reconcile_changed_always(tables, orders) == DOMAIN tables # {}

\* the value of `changed` after the reconcile loop
reconcile_changed(tables, orders) ==
    \E i \in DOMAIN tables : tables[i].status # should_be(orders, tables[i])

\* the selectbox loop: each table takes the status selected for it
apply_selection(tables, sel) ==
    [i \in DOMAIN tables |-> [tables[i] EXCEPT !.status = sel[i]]]

\* the value of `manual_change` after the selectbox loop
manual_change(tables, sel) ==
    \E i \in DOMAIN tables : sel[i] # tables[i].status

\* table_management_page(): sel[i] is what the selectbox of table i returns
\* (the table's current status when staff leaves it alone)
TableManagement(selectable) ==
    /\ Chosen("Table Management")
    /\ \E sel \in [DOMAIN TABLES_FILE -> selectable] :
         LET tables == reconcile(TABLES_FILE, ORDERS_FILE)
             ch     == reconcile_changed(TABLES_FILE, ORDERS_FILE)
             mc     == manual_change(tables, sel)
         IN  /\ reconciled' = tables
             /\ changed' = ch
             /\ TABLES_FILE' = IF mc THEN apply_selection(tables, sel)
                               ELSE IF ch THEN tables
                               ELSE TABLES_FILE
             /\ msgs' = IF mc THEN <<"Table statuses updated">> ELSE << >>
    /\ view' = "Table Management"
    /\ UNCHANGED <<MENU_FILE, ORDERS_FILE, SETTINGS_FILE, logged_in, user, cart>>
    /\ UNCHANGED placing

\* ---------------------------------------------------------------- order management
\* all_items: the available items of every category, in document order
RECURSIVE all_items_from(_, _)
all_items_from(menu, c) ==
    IF c > Len(Categories) THEN << >>
    ELSE SelectSeq(menu[Categories[c]], LAMBDA it : it.available)
         \o all_items_from(menu, c + 1)

all_items(menu) == all_items_from(menu, 1)

\* the cart line the Add button appends
cart_line(item, qty) ==
    [id |-> item.id, name |-> item.name, price |-> item.price, quantity |-> qty,
     subtotal |-> round2(item.price * qty)]

\* the Add button's inventory check: TRUE when the line is refused
add_refused(item, qty) == qty > item.inventory

\* order_management_page(), tab "New Order": the Add button of one item pressed
AddToCart(item_ids, qtys, max_cart) ==
    /\ Chosen("Order Management")
    /\ Len(cart) < max_cart
    /\ \E i \in DOMAIN all_items(MENU_FILE), qty \in qtys :
         LET item == all_items(MENU_FILE)[i] IN
         /\ item.id \in item_ids
         /\ IF qty > 0
            THEN IF add_refused(item, qty)
                 THEN /\ msgs' = <<"Only N left">>
                      /\ UNCHANGED cart
                 ELSE /\ cart' = Append(cart, cart_line(item, qty))
                      /\ msgs' = <<"Added to cart">>
            ELSE /\ msgs' = << >>
                 /\ UNCHANGED cart
    /\ view' = "Order Management"
    /\ reconciled' = << >>
    /\ changed' = FALSE
    /\ UNCHANGED <<persisted, logged_in, user>>
    /\ UNCHANGED placing

\* sum(i["subtotal"] for i in cart)
RECURSIVE sum_subtotals(_, _)
sum_subtotals(lines, k) ==
    IF k > Len(lines) THEN 0 ELSE lines[k].subtotal + sum_subtotals(lines, k + 1)

cart_total(lines) == sum_subtotals(lines, 1)

\* total * tax_rate, total * service_charge (rates in percent)
rate_amount(total, rate) == (total * rate) \div 100

\* a total rounded to two decimals before it is stored
final_total_rounded(total, tax_amt, svc_amt) == round2(total + tax_amt + svc_amt)

\* final_total = total + tax_amt + svc_amt
final_total(total, tax_amt, svc_amt) == total + tax_amt + svc_amt

\* the inner loop with `it["inventory"] -= 1` for the decrement
RECURSIVE scan_items_by_one(_, _, _)
scan_items_by_one(items, ci, i) ==
    IF i > Len(items) THEN [rejected |-> FALSE, items |-> items]
    ELSE IF items[i].id = ci.id
         THEN IF ci.quantity > items[i].inventory
              THEN [rejected |-> TRUE, items |-> items]
              ELSE scan_items_by_one([items EXCEPT ![i].inventory = @ - 1], ci, i + 1)
         ELSE scan_items_by_one(items, ci, i + 1)

\* a placement loop that trusts the check made when the line was added to the
\* cart: it decrements without `if ci['quantity'] > it.get('inventory', 0)`
RECURSIVE scan_items_unchecked(_, _, _)
scan_items_unchecked(items, ci, i) ==
    IF i > Len(items) THEN [rejected |-> FALSE, items |-> items]
    ELSE IF items[i].id = ci.id
         THEN scan_items_unchecked([items EXCEPT ![i].inventory = @ - ci.quantity], ci, i + 1)
         ELSE scan_items_unchecked(items, ci, i + 1)

\* `for it in menu_data[cat]` of the placement loop, for one cart line: the
\* check and the decrement of every item with the line's id; rejected when the
\* check fails (the handler returns)
RECURSIVE scan_items(_, _, _)
scan_items(items, ci, i) ==
    IF i > Len(items) THEN [rejected |-> FALSE, items |-> items]
    ELSE IF items[i].id = ci.id
         THEN IF ci.quantity > items[i].inventory
              THEN [rejected |-> TRUE, items |-> items]
              ELSE scan_items([items EXCEPT ![i].inventory = @ - ci.quantity], ci, i + 1)
         ELSE scan_items(items, ci, i + 1)

\* `for cat in menu_data` of the placement loop, for one cart line
RECURSIVE scan_categories(_, _, _)
scan_categories(menu, ci, c) ==
    IF c > Len(Categories) THEN [rejected |-> FALSE, menu |-> menu]
    ELSE LET r == scan_items(menu[Categories[c]], ci, 1) IN
         IF r.rejected
         THEN [rejected |-> TRUE, menu |-> [menu EXCEPT ![Categories[c]] = r.items]]
         ELSE scan_categories([menu EXCEPT ![Categories[c]] = r.items], ci, c + 1)

\* `for ci in st.session_state.cart`: the in-memory menu_data when the loop ends
RECURSIVE scan_cart(_, _, _)
scan_cart(menu, lines, k) ==
    IF k > Len(lines) THEN [rejected |-> FALSE, menu |-> menu]
    ELSE LET r == scan_categories(menu, lines[k], 1) IN
         IF r.rejected THEN r ELSE scan_cart(r.menu, lines, k + 1)

\* a placement loop that saves the menu before it returns
menu_saved_on_return(menu, scan) == scan.menu

\* the menu document after the placement loop: saved only when no line is rejected
menu_after_placement(menu, scan) == IF scan.rejected THEN menu ELSE scan.menu

\* f"{n:05d}": the decimal digits of n, zero-padded to five
RECURSIVE digits(_)
digits(n) == IF n < 10 THEN <<n>> ELSE Append(digits(n \div 10), n % 10)

RECURSIVE zero_pad(_, _)
zero_pad(ds, width) == IF Len(ds) >= width THEN ds ELSE zero_pad(<<0>> \o ds, width)

\* an id taken from the number of orders still open
order_id_from_open(orders) ==
    [prefix |-> "ORD",
     digits |-> zero_pad(digits(Len(SelectSeq(orders,
                    LAMBDA o : o.status \notin {"Completed", "Cancelled"})) + 1), 5)]

\* f"ORD{len(orders_data)+1:05d}"
order_id(orders) == [prefix |-> "ORD", digits |-> zero_pad(digits(Len(orders) + 1), 5)]

\* new_order
new_order(orders, customer_name, table_number, lines, settings, payment_status) ==
    LET total == cart_total(lines)
        tax_amt == rate_amount(total, settings.tax_rate)
        svc_amt == rate_amount(total, settings.service_charge)
    IN  [id |-> order_id(orders),
         customer_name |-> customer_name,
         table_number |-> table_number,
         items |-> lines,
         subtotal |-> total,
         discount |-> 0,
         tax |-> tax_amt,
         service_charge |-> svc_amt,
         total |-> final_total(total, tax_amt, svc_amt),
         status |-> "Pending",
         payment_status |-> payment_status]

\* the messages of the bill steps: build_pdf in its try, send_email in its try
bill_msgs(customer_email, pdf_ok, email_ok) ==
    (IF pdf_ok THEN << >> ELSE <<"Error generating PDF">>)
    \o (IF customer_email # "" /\ pdf_ok
        THEN (IF email_ok THEN <<"Bill sent">> ELSE <<"Email failed">>)
        ELSE << >>)

\* the bill steps without their try/except: a raise ends the request
bill_exceptions_uncaught(customer_email, pdf_ok, email_ok) ==
    pdf_ok /\ (customer_email # "" => email_ok)

\* `except Exception` around build_pdf and around send_email: TRUE when the
\* handler goes on to "Order placed!" and to clearing the cart
bill_exceptions_caught(customer_email, pdf_ok, email_ok) == TRUE

\* a handler that takes every customer name, the empty one too
name_never_missing(customer_name) == FALSE

\* `if not customer_name`
name_missing(customer_name) == customer_name = ""

\* order_management_page(), tab "New Order": the Place Order button pressed
\* (rendered only while the cart is non-empty)
PlaceOrder(names, table_numbers, emails, payments, bill_outcomes) ==
    /\ Chosen("Order Management")
    /\ cart # << >>
    /\ \E customer_name \in names, table_number \in table_numbers,
          customer_email \in emails, payment_status \in payments,
          pdf_ok \in bill_outcomes, email_ok \in bill_outcomes :
         IF name_missing(customer_name)
         THEN /\ msgs' = <<"Enter customer name">>
              /\ UNCHANGED <<MENU_FILE, ORDERS_FILE, cart, issued>>
         ELSE LET scan == scan_cart(MENU_FILE, cart, 1) IN
              IF scan.rejected
              THEN /\ msgs' = <<"Not enough inventory">>
                   /\ MENU_FILE' = menu_after_placement(MENU_FILE, scan)
                   /\ UNCHANGED <<ORDERS_FILE, cart, issued>>
              ELSE /\ Len(ORDERS_FILE) < MaxOrders
                   /\ MENU_FILE' = menu_after_placement(MENU_FILE, scan)
                   /\ ORDERS_FILE' = Append(ORDERS_FILE,
                         new_order(ORDERS_FILE, customer_name, table_number, cart,
                                   SETTINGS_FILE, payment_status))
                   /\ issued' = Append(issued,
                         [session |-> 1,
                          order |-> new_order(ORDERS_FILE, customer_name, table_number,
                                              cart, SETTINGS_FILE, payment_status)])
                   /\ IF bill_exceptions_caught(customer_email, pdf_ok, email_ok)
                      THEN /\ msgs' = bill_msgs(customer_email, pdf_ok, email_ok)
                                      \o <<"Order placed!">>
                           /\ cart' = << >>
                      ELSE /\ msgs' = bill_msgs(customer_email, pdf_ok, email_ok)
                           /\ UNCHANGED cart
    /\ view' = "Order Management"
    /\ reconciled' = << >>
    /\ changed' = FALSE
    /\ UNCHANGED <<TABLES_FILE, SETTINGS_FILE, logged_in, user>>
    /\ UNCHANGED <<inflight, crashed>>

\* the Update button's loop: the first order with the id takes the new status
\* (st.rerun() ends the loop)
RECURSIVE update_status_from(_, _, _, _)
update_status_from(orders, id, new_status, i) ==
    IF i > Len(orders) THEN orders
    ELSE IF orders[i].id = id
         THEN [orders EXCEPT ![i].status = new_status]
         ELSE update_status_from(orders, id, new_status, i + 1)

\* an Update loop that leaves a Completed or Cancelled order as it is
update_status_guarded(orders, id, new_status) ==
    [k \in DOMAIN orders |->
        IF orders[k].id = id /\ orders[k].status \notin {"Completed", "Cancelled"}
        THEN [orders[k] EXCEPT !.status = new_status]
        ELSE orders[k]]

\* an Update loop without the id test
update_status_every(orders, id, new_status) ==
    [k \in DOMAIN orders |-> [orders[k] EXCEPT !.status = new_status]]

update_status(orders, id, new_status) == update_status_from(orders, id, new_status, 1)

\* the menu with the quantities of an order's lines added back to the inventory
RECURSIVE restocked(_, _, _)
restocked(menu, lines, k) ==
    IF k > Len(lines) THEN menu
    ELSE restocked([c \in DOMAIN menu |->
                      [i \in DOMAIN menu[c] |->
                          IF menu[c][i].id = lines[k].id
                          THEN [menu[c][i] EXCEPT !.inventory = @ + lines[k].quantity]
                          ELSE menu[c][i]]],
                   lines, k + 1)

\* an Update button that puts a Cancelled order's quantities back on the menu
UpdateStatusRestocking(statuses) ==
    /\ Chosen("Order Management")
    /\ \E k \in DOMAIN ORDERS_FILE, new_status \in statuses :
         /\ ORDERS_FILE' = update_status(ORDERS_FILE, ORDERS_FILE[k].id, new_status)
         /\ MENU_FILE' = IF new_status = "Cancelled" /\ ORDERS_FILE[k].status # "Cancelled"
                         THEN restocked(MENU_FILE, ORDERS_FILE[k].items, 1)
                         ELSE MENU_FILE
    /\ msgs' = <<"Status updated">>
    /\ view' = "Order Management"
    /\ reconciled' = << >>
    /\ changed' = FALSE
    /\ UNCHANGED <<TABLES_FILE, SETTINGS_FILE, logged_in, user, cart>>
    /\ UNCHANGED placing

\* order_management_page(), tab "Order History": the Update button of one order
UpdateStatus(statuses) ==
    /\ Chosen("Order Management")
    /\ \E k \in DOMAIN ORDERS_FILE, new_status \in statuses :
         ORDERS_FILE' = update_status(ORDERS_FILE, ORDERS_FILE[k].id, new_status)
    /\ msgs' = <<"Status updated">>
    /\ view' = "Order Management"
    /\ reconciled' = << >>
    /\ changed' = FALSE
    /\ UNCHANGED <<MENU_FILE, TABLES_FILE, SETTINGS_FILE, logged_in, user, cart>>
    /\ UNCHANGED placing

\* settings_page(): the tax rate and the service charge are saved
SettingsChange(settings_inputs) ==
    /\ Chosen("Settings")
    /\ user.role = "admin"
    /\ \E s \in settings_inputs : SETTINGS_FILE' = s
    /\ msgs' = << >>
    /\ view' = "Settings"
    /\ reconciled' = << >>
    /\ changed' = FALSE
    /\ UNCHANGED <<MENU_FILE, ORDERS_FILE, TABLES_FILE, logged_in, user, cart>>
    /\ UNCHANGED placing

\* ---------------------------------------------------------------- placement, write by write
\* The Place Order handler of a session, with its two save_json calls as
\* separate steps, so that requests of other sessions, and the death of the
\* process, can fall between them.

\* orders_data of a request that loads the order log once, when the
\* application starts
orders_data_at_startup == << >>

\* orders_data = load_json(ORDERS_FILE) or []
orders_data == ORDERS_FILE

\* a handler that saves the order log first and the menu after it
first_write_orders == "orders"

\* the document the handler saves first: save_json(MENU_FILE, menu_data)
\* comes before save_json(ORDERS_FILE, orders_data)
first_write == "menu"

\* the handler up to its first save: the documents are loaded, the cart (one
\* line, added to the session's cart by an earlier request) passes the
\* placement loop, the handler's locals are kept for the writes
BeginPlace(sessions, item_ids, qtys) ==
    /\ \E s \in sessions, i \in DOMAIN all_items(MENU_FILE), qty \in qtys :
         LET lines == <<cart_line(all_items(MENU_FILE)[i], qty)>>
             scan == scan_cart(MENU_FILE, lines, 1)
         IN  /\ all_items(MENU_FILE)[i].id \in item_ids
             /\ inflight[s] = Idle
             /\ Len(issued) + Cardinality({t \in Sessions : inflight[t] # Idle}) < MaxOrders
             /\ ~scan.rejected
             /\ inflight' = [inflight EXCEPT ![s] =
                    [pc |-> "checked",
                     menu_data |-> scan.menu,
                     orders_data |-> orders_data,
                     new_order |-> new_order(orders_data, "Ann", "", lines,
                                             SETTINGS_FILE, "Unpaid")]]
    /\ UNCHANGED <<persisted, logged_in, user, cart, view, msgs, reconciled, changed,
                   issued, crashed>>

\* the document `which` of the handler's two, saved from the handler's locals
save_json(s, which) ==
    IF which = "menu"
    THEN /\ MENU_FILE' = inflight[s].menu_data
         /\ UNCHANGED ORDERS_FILE
    ELSE /\ ORDERS_FILE' = Append(inflight[s].orders_data, inflight[s].new_order)
         /\ UNCHANGED MENU_FILE

\* the first save_json of the handler
WriteFirst(sessions) ==
    /\ \E s \in sessions :
         /\ inflight[s].pc = "checked"
         /\ save_json(s, first_write)
         /\ inflight' = [inflight EXCEPT ![s].pc = "first_saved"]
    /\ UNCHANGED <<TABLES_FILE, SETTINGS_FILE, logged_in, user, cart, view, msgs,
                   reconciled, changed, issued, crashed>>

\* the second save_json of the handler and the rest of the request
WriteSecond(sessions) ==
    /\ \E s \in sessions :
         /\ inflight[s].pc = "first_saved"
         /\ save_json(s, IF first_write = "menu" THEN "orders" ELSE "menu")
         /\ issued' = Append(issued, [session |-> s, order |-> inflight[s].new_order])
         /\ inflight' = [inflight EXCEPT ![s] = Idle]
    /\ UNCHANGED <<TABLES_FILE, SETTINGS_FILE, logged_in, user, cart, view, msgs,
                   reconciled, changed, crashed>>

\* the process dies while a request is under way: the handler's locals are
\* lost, the documents stay as the request left them
Crash(sessions) ==
    /\ \E s \in sessions :
         /\ inflight[s] # Idle
         /\ inflight' = [inflight EXCEPT ![s] = Idle]
    /\ crashed' = TRUE
    /\ UNCHANGED <<persisted, logged_in, user, cart, view, msgs, reconciled, changed,
                   issued>>

\* ---------------------------------------------------------------- specifications
\* every request with every input
Next ==
    \/ Login(Credentials)
    \/ Logout
    \/ Dashboard
    \/ AdminPage({"Menu Management", "Sales Analytics"})
    \/ TableManagement(Range(status_options))
    \/ AddToCart(ItemIds, QtyInputs, MaxCart)
    \/ PlaceOrder(CustomerNames, TableNumberInputs, CustomerEmails,
                  Range(payment_options), BOOLEAN)
    \/ UpdateStatus(Range(order_statuses))
    \/ SettingsChange(SettingsInputs)

Spec == Init /\ [][Next]_vars

\* The specifications below are Spec with each request's inputs drawn from
\* subsets, so that the reachable states can be enumerated.

\* Tables: orders against tables "1" and "2", live and not, and the table view
\* with every selection; one item, one line per cart
NextTables ==
    \/ Login({StaffLogin})
    \/ AddToCart({"BEV001"}, {1}, 1)
    \/ PlaceOrder({"Ann"}, {"1", "2"}, {""}, {"Unpaid"}, {TRUE})
    \/ UpdateStatus({"Ready", "Completed", "Cancelled"})
    \/ TableManagement(Range(status_options))

SpecTables == Init /\ [][NextTables]_vars

\* Placement: both items, every quantity, carts of several lines, an empty and
\* a given customer name, bills that fail; no table, default settings
NextPlacement ==
    \/ Login({StaffLogin})
    \/ Logout
    \/ AddToCart(ItemIds, QtyInputs, MaxCart)
    \/ PlaceOrder(CustomerNames, {""}, CustomerEmails, {"Unpaid"}, BOOLEAN)
    \/ UpdateStatus({"Cancelled"})

SpecPlacement == Init /\ [][NextPlacement]_vars

\* Status: orders of one line, of one or two Espressos, with and without
\* table, and the Update button with each of the five statuses
NextStatus ==
    \/ Login({StaffLogin})
    \/ AddToCart({"BEV001"}, {1, 2}, 1)
    \/ PlaceOrder({"Ann"}, {"", "1"}, {""}, {"Unpaid"}, {TRUE})
    \/ UpdateStatus(Range(order_statuses))

SpecStatus == Init /\ [][NextStatus]_vars

\* Inventory: every request of a staff session: carts of both items in every
\* quantity, placements against table "1", cancellations, table views with
\* manual changes, logout
NextInventory ==
    \/ Login({StaffLogin})
    \/ Logout
    \/ AddToCart(ItemIds, QtyInputs, 1)
    \/ PlaceOrder(CustomerNames, {"1"}, {""}, {"Unpaid"}, {TRUE})
    \/ UpdateStatus({"Preparing", "Cancelled"})
    \/ TableManagement({"Available", "Reserved"})

SpecInventory == Init /\ [][NextInventory]_vars

\* Roles: admin, staff and refused logins, every navigation choice, one cart
NextRoles ==
    \/ Login(Credentials)
    \/ Logout
    \/ Dashboard
    \/ AdminPage({"Menu Management", "Sales Analytics"})
    \/ SettingsChange(SettingsInputs)
    \/ TableManagement({"Available", "Reserved"})
    \/ AddToCart({"BEV001"}, {1}, 1)

SpecRoles == Init /\ [][NextRoles]_vars

\* Crash: one session that places orders of one line, of either item, write by
\* write, and Cancels orders, and a process that may die during a placement
NextCrash ==
    \/ Login({StaffLogin})
    \/ UpdateStatus({"Cancelled"})
    \/ BeginPlace({1}, ItemIds, {1, 2})
    \/ WriteFirst({1})
    \/ WriteSecond({1})
    \/ Crash({1})

SpecCrash == Init /\ [][NextCrash]_vars

\* Race: two sessions that place orders of one line, of either item, write by
\* write, in every interleaving
NextRace ==
    \/ BeginPlace(Sessions, ItemIds, {1, 2})
    \/ WriteFirst(Sessions)
    \/ WriteSecond(Sessions)

SpecRace == Init /\ [][NextRace]_vars

\* Orders: one item in two quantities, orders against table "1", status
\* updates, settings changes and table views between the placements
NextOrders ==
    \/ Login({AdminLogin})
    \/ AddToCart({"BEV001"}, {1, 2}, 1)
    \/ PlaceOrder({"Ann"}, {"1"}, {""}, {"Paid"}, {TRUE})
    \/ UpdateStatus({"Ready", "Completed"})
    \/ SettingsChange(SettingsInputs)
    \/ TableManagement({"Available", "Reserved"})

SpecOrders == Init /\ [][NextOrders]_vars

\* ---------------------------------------------------------------- properties
\* a live order of the log references table tn
LiveOrderAt(tn) ==
    \E k \in DOMAIN ORDERS_FILE :
        /\ ORDERS_FILE[k].table_number = tn
        /\ ORDERS_FILE[k].status \in {"Pending", "Preparing", "Ready"}

\* the last request was a table view
TableViewed == view = "Table Management"

\* the inventory the menu document holds for the item with this id
RECURSIVE StockFrom(_, _, _)
StockFrom(menu, id, c) ==
    IF c > Len(Categories) THEN 0
    ELSE LET its == SelectSeq(menu[Categories[c]], LAMBDA it : it.id = id) IN
         (IF its = << >> THEN 0 ELSE its[1].inventory) + StockFrom(menu, id, c + 1)

StockOf(menu, id) == StockFrom(menu, id, 1)

\* the total quantity the cart lines ask of the item with this id
RECURSIVE OrderedFrom(_, _, _)
OrderedFrom(lines, id, k) ==
    IF k > Len(lines) THEN 0
    ELSE (IF lines[k].id = id THEN lines[k].quantity ELSE 0) + OrderedFrom(lines, id, k + 1)

Ordered(lines, id) == OrderedFrom(lines, id, 1)

\* some cart line asks more than the inventory left to it by the lines before it
OverAsked == \E id \in ItemIds : Ordered(cart, id) > StockOf(MENU_FILE, id)

\* the last message of the request just served
LastMsg == IF msgs = << >> THEN "" ELSE msgs[Len(msgs)]

\* the request just served was a Place Order press
PlaceAttempted ==
    /\ view = "Order Management"
    /\ \/ LastMsg \in {"Enter customer name", "Not enough inventory", "Order placed!"}
       \/ \E m \in Range(msgs) : m \in {"Error generating PDF", "Email failed"}

\* the request just served appended an order
Placed(before, after) == Len(after) = Len(before) + 1

\* C1: a Place Order attempt with a cart that asks more of some item than the
\* menu holds leaves the menu document and the order log as they were.
C1_RejectedChangesNothing ==
    [][(OverAsked /\ PlaceAttempted') =>
          (MENU_FILE' = MENU_FILE /\ ORDERS_FILE' = ORDERS_FILE)]_vars

\* C1 witness: a cart of two lines was rejected although its first line alone
\* passes the check.
C1_Witness ==
    /\ PlaceAttempted
    /\ LastMsg = "Not enough inventory"
    /\ Len(cart) = 2
    /\ cart[1].quantity <= StockOf(MENU_FILE, cart[1].id)
    /\ OverAsked

\* the number an order id's digits spell
RECURSIVE DigitsValue(_, _)
DigitsValue(ds, n) ==
    IF n = 0 THEN 0 ELSE 10 * DigitsValue(ds, n - 1) + ds[n]

IdCounter(id) == DigitsValue(id.digits, Len(id.digits))

\* C3: the k-th order of the log has the id ORD followed by k in five digits,
\* so the ids are pairwise distinct and increase along the log.
C3_IdsCountUp ==
    /\ \A k \in DOMAIN ORDERS_FILE :
          /\ ORDERS_FILE[k].id.prefix = "ORD"
          /\ Len(ORDERS_FILE[k].id.digits) = 5
          /\ IdCounter(ORDERS_FILE[k].id) = k
    /\ \A j, k \in DOMAIN ORDERS_FILE :
          j < k => /\ ORDERS_FILE[j].id # ORDERS_FILE[k].id
                   /\ IdCounter(ORDERS_FILE[j].id) < IdCounter(ORDERS_FILE[k].id)

\* C3 witness: a second order was placed after the first was Completed.
C3_Witness ==
    /\ Len(ORDERS_FILE) = 2
    /\ ORDERS_FILE[1].status = "Completed"
    /\ ORDERS_FILE[2].status = "Pending"
    /\ LastMsg = "Order placed!"

\* C4: a placement lowers the inventory of every item by the total quantity the
\* cart lines ask of it, which leaves the items the cart does not name unchanged.
C4_InventoryDecrement ==
    [][Placed(ORDERS_FILE, ORDERS_FILE') =>
          \A id \in ItemIds :
              StockOf(MENU_FILE, id) - StockOf(MENU_FILE', id) = Ordered(cart, id)]_vars

\* C4 witness: an order of two lines for the same item was placed, with the
\* other item's inventory still at its seed.
C4_Witness ==
    /\ LastMsg = "Order placed!"
    /\ LET o == ORDERS_FILE[Len(ORDERS_FILE)] IN
         /\ Len(o.items) = 2
         /\ o.items[1].id = "BEV001"
         /\ o.items[2].id = "BEV001"
         /\ StockOf(MENU_FILE, "BEV001") = StockOf(default_menu, "BEV001") - 2
         /\ StockOf(MENU_FILE, "FOOD001") = StockOf(default_menu, "FOOD001")

\* subtotal + subtotal * tax_rate + subtotal * service_charge, rates in percent
FullTotal(subtotal, settings) ==
    subtotal + (subtotal * settings.tax_rate) \div 100
             + (subtotal * settings.service_charge) \div 100

\* the nearest whole cent, ties to the even cent
NearestCent(x) ==
    LET lo == (x \div 100) * 100 IN
    IF x - lo < 50 THEN lo
    ELSE IF x - lo > 50 THEN lo + 100
    ELSE IF (x \div 100) % 2 = 0 THEN lo ELSE lo + 100

\* the sum of the cart lines' subtotals
RECURSIVE SubtotalFrom(_, _)
SubtotalFrom(lines, k) ==
    IF k = 0 THEN 0 ELSE SubtotalFrom(lines, k - 1) + lines[k].subtotal

\* C5 as claimed: the total stored with a placed order is
\* subtotal + subtotal * tax_rate + subtotal * service_charge rounded to two
\* decimals, at the rates of the settings when the order is placed.
C5_TotalRounded ==
    [][Placed(ORDERS_FILE, ORDERS_FILE') =>
          LET o == ORDERS_FILE'[Len(ORDERS_FILE')] IN
          /\ o.subtotal = SubtotalFrom(cart, Len(cart))
          /\ o.total = NearestCent(FullTotal(o.subtotal, SETTINGS_FILE))]_vars

\* C5 as amended: the total stored with a placed order is
\* subtotal + subtotal * tax_rate + subtotal * service_charge at full
\* precision, not rounded, at the rates of the settings when the order is placed.
C5_TotalUnrounded ==
    [][Placed(ORDERS_FILE, ORDERS_FILE') =>
          LET o == ORDERS_FILE'[Len(ORDERS_FILE')] IN
          /\ o.subtotal = SubtotalFrom(cart, Len(cart))
          /\ o.total = FullTotal(o.subtotal, SETTINGS_FILE)]_vars

\* C5 witness: an order of subtotal 2.50 placed at the rates 0.10 and 0.05 is
\* stored with the total 2.875, and an order was placed at changed rates.
C5_Witness ==
    /\ LastMsg = "Order placed!"
    /\ Len(ORDERS_FILE) = 2
    /\ ORDERS_FILE[1].subtotal = 25000
    /\ ORDERS_FILE[1].total = 28750
    /\ SETTINGS_FILE = OtherSettings
    /\ ORDERS_FILE[2].total = FullTotal(ORDERS_FILE[2].subtotal, OtherSettings)

\* the fields of an order that are fixed when it is placed
Frozen(o) ==
    [id |-> o.id, customer_name |-> o.customer_name, table_number |-> o.table_number,
     items |-> o.items, subtotal |-> o.subtotal, discount |-> o.discount, tax |-> o.tax,
     service_charge |-> o.service_charge, total |-> o.total,
     payment_status |-> o.payment_status]

\* C10: no request removes an order or changes an order's items, amounts, id,
\* customer, table or payment status, and a request changes the status of at
\* most one order.
C10_OrdersFrozen ==
    [][/\ \A k \in DOMAIN ORDERS_FILE :
            /\ k \in DOMAIN ORDERS_FILE'
            /\ Frozen(ORDERS_FILE'[k]) = Frozen(ORDERS_FILE[k])
       /\ \A j, k \in DOMAIN ORDERS_FILE :
            (/\ ORDERS_FILE'[j].status # ORDERS_FILE[j].status
             /\ ORDERS_FILE'[k].status # ORDERS_FILE[k].status) => j = k]_vars

\* C10 witness: the first order, placed at the default rates and since
\* Completed, still shows its amounts after the settings changed, a second
\* order was placed at the new rates and staff Reserved a table.
C10_Witness ==
    /\ Len(ORDERS_FILE) = 2
    /\ ORDERS_FILE[1].status = "Completed"
    /\ ORDERS_FILE[1].total = FullTotal(ORDERS_FILE[1].subtotal, default_settings)
    /\ ORDERS_FILE[2].total = FullTotal(ORDERS_FILE[2].subtotal, OtherSettings)
    /\ SETTINGS_FILE = OtherSettings
    /\ \E i \in DOMAIN TABLES_FILE : TABLES_FILE[i].status = "Reserved"

\* C9: a Place Order request in which build_pdf or send_email raised ends with
\* the order appended as Pending with the cart's lines, the inventory lowered by
\* the cart's quantities and the cart empty.
C9_BillFailureKeepsOrder ==
    [][(\E m \in Range(msgs') : m \in {"Error generating PDF", "Email failed"}) =>
          /\ Placed(ORDERS_FILE, ORDERS_FILE')
          /\ SubSeq(ORDERS_FILE', 1, Len(ORDERS_FILE)) = ORDERS_FILE
          /\ ORDERS_FILE'[Len(ORDERS_FILE')].status = "Pending"
          /\ ORDERS_FILE'[Len(ORDERS_FILE')].items = cart
          /\ \A id \in ItemIds :
                StockOf(MENU_FILE', id) = StockOf(MENU_FILE, id) - Ordered(cart, id)
          /\ cart' = << >>
          /\ msgs'[Len(msgs')] = "Order placed!"]_vars

\* C9 witness: an order was placed although the bill could not be rendered, or
\* although the e-mail could not be sent.
C9_Witness ==
    /\ Len(ORDERS_FILE) >= 1
    /\ cart = << >>
    /\ ORDERS_FILE[Len(ORDERS_FILE)].status = "Pending"
    /\ msgs \in {<<"Error generating PDF", "Order placed!">>,
                 <<"Email failed", "Order placed!">>}

\* C2: right after the reconcile pass of a table view, a table is Occupied
\* if and only if a Pending, Preparing or Ready order references it.
C2_OccupiedIffLive ==
    TableViewed =>
        \A i \in DOMAIN reconciled :
            (reconciled[i].status = "Occupied") <=> LiveOrderAt(reconciled[i].table_number)

\* C2 witness: the pass has made one table Occupied for its live order and has
\* left Available a table whose order is Completed.
C2_Witness ==
    /\ TableViewed
    /\ \E i, j \in DOMAIN reconciled :
         /\ reconciled[i].status = "Occupied"
         /\ LiveOrderAt(reconciled[i].table_number)
         /\ reconciled[j].status = "Available"
         /\ \E k \in DOMAIN ORDERS_FILE :
              /\ ORDERS_FILE[k].table_number = reconciled[j].table_number
              /\ ORDERS_FILE[k].status = "Completed"

\* C6 as claimed: a table view in which staff changes nothing leaves the status
\* of every table without live order as it was (a Reserved table stays Reserved).
C6_IdleTableKept ==
    [][(view' = "Table Management" /\ msgs' = << >>) =>
          \A i \in DOMAIN TABLES_FILE :
              ~LiveOrderAt(TABLES_FILE[i].table_number) =>
                  TABLES_FILE'[i].status = TABLES_FILE[i].status]_vars

\* C7 as claimed: at the end of every table view, a table with a live order is
\* persisted as Occupied, whatever staff selected.
C7_BusyIsOccupied ==
    TableViewed =>
        \A i \in DOMAIN TABLES_FILE :
            LiveOrderAt(TABLES_FILE[i].table_number) => TABLES_FILE[i].status = "Occupied"

\* C8: a table view that follows a table view, with the table document still as
\* the first reconcile pass left it and no request in between, computes the same
\* document in its reconcile pass and that pass saves nothing.
C8_ReconcileIdempotent ==
    [][(TableViewed /\ TABLES_FILE = reconciled /\ view' = "Table Management") =>
          (reconciled' = reconciled /\ ~changed')]_vars

\* C8 witness: a reconcile pass ran on a document that already shows an
\* Occupied table, changed nothing and saved nothing.
C8_Witness ==
    /\ TableViewed
    /\ ~changed
    /\ TABLES_FILE = reconciled
    /\ \E i \in DOMAIN reconciled : reconciled[i].status = "Occupied"

\* C11: a request that places an order ends with the cart empty, a Place Order
\* request rejected for insufficient inventory ends with the cart holding the
\* lines it held before, and a Logout request ends with the cart empty.
C11_CartAfterRequest ==
    [][/\ Placed(ORDERS_FILE, ORDERS_FILE') => cart' = << >>
       /\ (PlaceAttempted' /\ msgs' = <<"Not enough inventory">>) => cart' = cart
       /\ (logged_in /\ view' = "Logout") => cart' = << >>]_vars

\* C11 witness: after a placement emptied the cart, a cart built anew was
\* rejected and is still there.
C11_Witness ==
    /\ Len(ORDERS_FILE) >= 1
    /\ msgs = <<"Not enough inventory">>
    /\ cart # << >>

\* C12: a Place Order request with an empty customer name shows only the name
\* error and leaves the menu, the order log, the table document, the settings
\* and the cart as they were (no bill step runs, so none of its messages
\* shows); no order is ever recorded with an empty name or without lines.
C12_NoNameChangesNothing ==
    [][/\ (PlaceAttempted' /\ "Enter customer name" \in Range(msgs')) =>
             /\ msgs' = <<"Enter customer name">>
             /\ UNCHANGED <<persisted, cart>>
       /\ \A k \in DOMAIN ORDERS_FILE' :
             /\ ORDERS_FILE'[k].customer_name # ""
             /\ ORDERS_FILE'[k].items # << >>]_vars

\* C12 witness: a Place Order press without a name was refused with a cart
\* that the inventory covers.
C12_Witness ==
    /\ msgs = <<"Enter customer name">>
    /\ cart # << >>
    /\ ~OverAsked

\* C14: no item's inventory in the menu document is ever below zero.
C14_InventoryNotNegative ==
    \A id \in ItemIds : StockOf(MENU_FILE, id) >= 0

\* C14 witness: a cart of two lines for the same item, each within the
\* inventory and together above it, was rejected.
C14_Witness ==
    /\ msgs = <<"Not enough inventory">>
    /\ Len(cart) = 2
    /\ cart[1].id = cart[2].id
    /\ cart[1].quantity <= StockOf(MENU_FILE, cart[1].id)
    /\ cart[2].quantity <= StockOf(MENU_FILE, cart[1].id)
    /\ cart[1].quantity + cart[2].quantity > StockOf(MENU_FILE, cart[1].id)

\* C15 as claimed: at the end of a request that places an order or updates an
\* order's status, a table of the table document is Occupied if and only if a
\* Pending, Preparing or Ready order references it.
C15_TablesFreshAfterOrders ==
    (view = "Order Management" /\ LastMsg \in {"Order placed!", "Status updated"}) =>
        \A i \in DOMAIN TABLES_FILE :
            (TABLES_FILE[i].status = "Occupied") <=> LiveOrderAt(TABLES_FILE[i].table_number)

\* C17: in the order view, for every order of the log, whatever its status,
\* and for each of the five statuses, the Update button can be pressed and
\* leaves that order with the chosen status and every other order as it was.
C17_AnyStatusToAny ==
    Chosen("Order Management") =>
        \A k \in DOMAIN ORDERS_FILE : \A new_status \in Range(order_statuses) :
            ENABLED (/\ UpdateStatus({new_status})
                     /\ ORDERS_FILE' = [ORDERS_FILE EXCEPT ![k].status = new_status])

\* C17 witness: the Update button was just used and the log holds a Cancelled
\* order and a Pending one.
C17_Witness ==
    /\ msgs = <<"Status updated">>
    /\ \E j, k \in DOMAIN ORDERS_FILE :
         /\ ORDERS_FILE[j].status = "Cancelled"
         /\ ORDERS_FILE[k].status = "Pending"

\* C18: no request raises the inventory of an item, and a request changes the
\* menu document only when it appends an order.
C18_InventoryNeverRises ==
    [][/\ \A id \in ItemIds : StockOf(MENU_FILE', id) <= StockOf(MENU_FILE, id)
       /\ MENU_FILE' # MENU_FILE => Placed(ORDERS_FILE, ORDERS_FILE')]_vars

\* C18 witness: an order was placed and Cancelled, staff Reserved a table and
\* logged out, and the inventory is still below its seed by the order's
\* quantity.
C18_Witness ==
    /\ ~logged_in
    /\ view = "Logout"
    /\ Len(ORDERS_FILE) = 1
    /\ ORDERS_FILE[1].status = "Cancelled"
    /\ \E i \in DOMAIN TABLES_FILE : TABLES_FILE[i].status = "Reserved"
    /\ \A id \in ItemIds :
          StockOf(MENU_FILE, id) = StockOf(default_menu, id) - Ordered(ORDERS_FILE[1].items, id)

\* C13 as claimed: a request renders Menu Management, Sales Analytics, Settings
\* or Table Management only for a logged-in admin, and renders anything but
\* the login page only for a logged-in session.
C13_FourViewsAdminOnly ==
    [][/\ view' \in {"Menu Management", "Sales Analytics", "Settings", "Table Management"} =>
             (logged_in /\ user.role = "admin")
       /\ view' # "Login" => logged_in]_vars

\* C13 as amended: a request renders Menu Management, Sales Analytics or
\* Settings only for a logged-in admin, and renders anything but the login
\* page only for a logged-in session.
C13_ThreeViewsAdminOnly ==
    [][/\ view' \in {"Menu Management", "Sales Analytics", "Settings"} =>
             (logged_in /\ user.role = "admin")
       /\ view' # "Login" => logged_in]_vars

\* C13 witness: a staff session has the Table Management view, with a table
\* it Reserved, after an admin session changed the settings.
C13_Witness ==
    /\ logged_in
    /\ user.role = "staff"
    /\ view = "Table Management"
    /\ \E i \in DOMAIN TABLES_FILE : TABLES_FILE[i].status = "Reserved"
    /\ SETTINGS_FILE = OtherSettings

\* the total quantity the orders of a log ask of the item with this id
RECURSIVE TotalOrdered(_, _, _)
TotalOrdered(orders, id, k) ==
    IF k = 0 THEN 0 ELSE TotalOrdered(orders, id, k - 1) + Ordered(orders[k].items, id)

\* how far the inventory of the item is below its seed
Sold(id) == StockOf(default_menu, id) - StockOf(MENU_FILE, id)

\* C19: in every state of the documents, between the two writes of a placement
\* and after a crash too, each item's inventory is below its seed by at least
\* the total quantity of the recorded orders; when no request is under way and
\* none was killed, by exactly that quantity.
C19_MenuWrittenFirst ==
    /\ \A id \in ItemIds :
          Sold(id) >= TotalOrdered(ORDERS_FILE, id, Len(ORDERS_FILE))
    /\ (~crashed /\ \A s \in Sessions : inflight[s] = Idle) =>
          \A id \in ItemIds :
              Sold(id) = TotalOrdered(ORDERS_FILE, id, Len(ORDERS_FILE))

\* C19 witness: after a recorded order, a request was killed between its two
\* writes and left an inventory lowered for an order that is not in the log.
C19_Witness ==
    /\ crashed
    /\ \A s \in Sessions : inflight[s] = Idle
    /\ Len(ORDERS_FILE) >= 1
    /\ \E id \in ItemIds :
          Sold(id) > TotalOrdered(ORDERS_FILE, id, Len(ORDERS_FILE))

\* the order is in the log, whatever its status there
InLog(o) == \E k \in DOMAIN ORDERS_FILE : Frozen(ORDERS_FILE[k]) = Frozen(o)

\* two placed orders were given the same id, or a placed order is not in the log
IdSharedOrOrderLost ==
    \/ \E j, k \in DOMAIN issued : j < k /\ issued[j].order.id = issued[k].order.id
    \/ \E k \in DOMAIN issued : ~InLog(issued[k].order)

\* the total quantity the placed orders ask of the item with this id
RECURSIVE TotalIssued(_, _)
TotalIssued(id, k) ==
    IF k = 0 THEN 0 ELSE TotalIssued(id, k - 1) + Ordered(issued[k].order.items, id)

\* some item's inventory is lowered by less than the placed orders ask of it
InventoryUpdateLost ==
    \E id \in ItemIds : Sold(id) < TotalIssued(id, Len(issued))

\* every request so far, finished or under way, came from the same session
SingleSession ==
    \E s \in Sessions :
        /\ \A k \in DOMAIN issued : issued[k].session = s
        /\ \A t \in Sessions \ {s} : inflight[t] = Idle

\* C16: as long as all placements come from one session, every placed order is
\* in the log under an id of its own and each inventory is lowered by at least
\* what the placed orders ask; the witness shows two sessions reaching the
\* contrary.
C16_OneSessionLosesNothing ==
    SingleSession => (~IdSharedOrOrderLost /\ ~InventoryUpdateLost)

\* C16 witness: two sessions have each placed an order, both requests ran to
\* their end, and the two orders share an id, one of them is not in the log,
\* and the Espresso inventory is lowered by less than the two orders ask.
C16_Witness ==
    /\ Len(issued) = 2
    /\ issued[1].session # issued[2].session
    /\ \A s \in Sessions : inflight[s] = Idle
    /\ issued[1].order.id = issued[2].order.id
    /\ \E k \in DOMAIN issued : ~InLog(issued[k].order)
    /\ Sold("BEV001") < TotalIssued("BEV001", Len(issued))
====
